---------------------------- MODULE Spec2Model ----------------------------
(***************************************************************************)
(* Model of code of linuzri/polymarket-bot:                                *)
(*   src/weather_multi_source.py  get_bucket, fetch_all_models,            *)
(*                                analyze_city, format_table               *)
(*   src/btc_predict.py           get_mt5_candles, run_ensemble, main      *)
(*   src/scripts/update_portfolio.py                                       *)
(*                                                                         *)
(* Numbers.  Temperatures are Python floats; here they are integers in     *)
(* thousandths of a degree (Milli).  Probabilities of the weather          *)
(* consensus are integers in 1/ProbScale, probabilities of the classifier  *)
(* ensemble are integers in 1/ConfScale (five decimals), and a value       *)
(* rounded to four decimals is an integer in 1/Conf4Scale.                 *)
(* Dictionaries are sequences of entries in insertion order, which is the  *)
(* order Python iterates them in.                                          *)
(***************************************************************************)
EXTENDS Integers, Sequences, FiniteSets, TLC

VARIABLES
    prog,           \* what the process runs: "bucket", "weather", "cli", "btc",
                    \* "candles", "ledger"
    \* ---- get_bucket called on its own
    gb_temp,        \* argument temp (Milli)
    gb_unit,        \* argument unit
    gb_out,         \* returned bucket, NoBucket before the call
    \* ---- weather_multi_source.analyze_city / format_table
    w_pc,           \* "idle", "analyzed", "printed"
    w_city,         \* city_name of the evaluation
    w_request,      \* the models fetch_all_models named in its request
    w_reply,        \* what the provider answered to fetch_all_models' request
    model_temps,    \* fetch_all_models' return value
    results,        \* analyze_city's local `results`
    bucket_counts,  \* analyze_city's local `bucket_counts`
    w_result,       \* analyze_city's return value
    w_first,        \* history: reply and return value of the first evaluation
    w_evals,        \* number of evaluations made
    table,          \* format_table's summary rows
    \* ---- btc_predict.main / run_ensemble
    b_pc,           \* "start", "candles", "features", "ensemble", "done"
    stdout_is,      \* what sys.stdout is bound to: "real" or "stderr"
    b_failed,       \* which input could not be obtained, "" when none
    probs,          \* predict_proba of rf, xgb, lgb for the run
    model_results,  \* run_ensemble's local `model_results`
    vote_counts,    \* run_ensemble's local `vote_counts`
    majority,       \* (majority_signal, majority_count)
    b_out,          \* what print has written on the real standard output
    b_err,          \* what print has written on standard error
    b_first,        \* history: probs and output of the first run
    b_runs,         \* number of runs of the script
    \* ---- weather_multi_source.main / run
    c_pc,           \* "run" while run() loops, "exited" after main
    cities,         \* run's argument `cities`
    city_i,         \* position of the loop of run in `cities`
    run_results,    \* run's local `results`
    run_replies,    \* history: the provider's reply behind each entry of run_results
    c_table,        \* format_table's output printed by main
    summary,        \* the counts of the "Tradeable opportunities" line
    exit_code,      \* exit status of the process, -1 while it runs
    \* ---- btc_predict.get_mt5_candles on its own
    m_pc,           \* "import", "auth", "initialize", "login", "rates",
                    \* "frame", "left"
    m_env,          \* what the function finds: module, auth file, terminal
    mt5_open,       \* the MT5 session is initialized and not shut down
    m_ret,          \* how control left the function, NoReturn before
    \* ---- scripts/update_portfolio.py
    u_trades,       \* data['trades'] of reconciliation_data.json
    u_file,         \* ps['positions'] as portfolio_state.json holds it
    u_before,       \* history: ps['positions'] before the latest run
    u_wrote,        \* the latest run wrote portfolio_state.json
    u_added,        \* new_positions of the latest run
    u_runs          \* number of runs of the script

vars == << prog, gb_temp, gb_unit, gb_out,
           w_pc, w_city, w_request, w_reply, model_temps, results,
           bucket_counts, w_result, w_first, w_evals, table,
           b_pc, stdout_is, b_failed, probs, model_results, vote_counts,
           majority, b_out, b_err, b_first, b_runs,
           c_pc, cities, city_i, run_results, run_replies, c_table, summary,
           exit_code,
           m_pc, m_env, mt5_open, m_ret,
           u_trades, u_file, u_before, u_wrote, u_added, u_runs >>

gbVars == << gb_temp, gb_unit, gb_out >>
wVars  == << w_pc, w_city, w_request, w_reply, model_temps, results, bucket_counts,
             w_result, w_first, w_evals, table >>
bVars  == << b_pc, stdout_is, b_failed, probs, model_results, vote_counts,
             majority, b_out, b_err, b_first, b_runs >>
cVars  == << c_pc, cities, city_i, run_results, run_replies, c_table, summary,
             exit_code >>
mVars  == << m_pc, m_env, mt5_open, m_ret >>
uVars  == << u_trades, u_file, u_before, u_wrote, u_added, u_runs >>

-----------------------------------------------------------------------------
(* Arithmetic helpers                                                      *)

\* thousandths of a degree per degree
Milli == 10 * 10 * 10

Abs(x) == IF x < 0 THEN -x ELSE x

\* Python's round(): n / d (d > 0) rounded to the nearest integer, an exact
\* tie going to the even one.  Python rounds the binary value of the float, so
\* a decimal tie that is no binary tie may go either way; none of the values
\* drawn below is such a tie.
RoundHalfEven(n, d) ==
    LET q == n \div d
        r == n % d
    IN  IF 2 * r < d THEN q
        ELSE IF 2 * r > d THEN q + 1
        ELSE IF q % 2 = 0 THEN q ELSE q + 1

\* float `a // b` for b a whole number of degrees: the floor of the quotient,
\* still a float (here: Milli times a whole number)
FloatFloorDiv(a, b) == (a \div (b * Milli)) * Milli

\* int(x): truncation toward zero of a float to an int
PyInt(x) == IF x >= 0 THEN x \div Milli ELSE -((-x) \div Milli)

-----------------------------------------------------------------------------
(* weather_multi_source.py: get_bucket                                     *)

\* the bucket string f"{base}-{base + step}°{unit}", kept as its three fields
BucketStr(base, step, unit) == [lo |-> base, hi |-> base + step, unit |-> unit]

\* mutant of get_bucket: the Fahrenheit base is the truncated temperature
get_bucketTruncating(temp, unit) ==
    IF unit = "F"
    THEN BucketStr(PyInt(temp), 2, "F")
    ELSE LET base0 == PyInt(FloatFloorDiv(temp, 1))
             base == IF temp < 0 /\ temp # base0 * Milli THEN base0 - 1 ELSE base0
         IN  BucketStr(base, 1, "C")

\* get_bucket(temp, unit), lines 42-56
get_bucket(temp, unit) ==
    IF unit = "F"
    THEN LET step == 2
             base == PyInt(FloatFloorDiv(temp, step)) * step
         IN  BucketStr(base, step, "F")
    ELSE LET step == 1
             base0 == PyInt(FloatFloorDiv(temp, step)) * step
             base == IF temp < 0 /\ temp # base0 * Milli THEN base0 - 1 ELSE base0
         IN  BucketStr(base, step, "C")


-----------------------------------------------------------------------------
(* weather_multi_source.py: configuration                                  *)

\* CITIES, lines 19-33: unit and bias (Milli) of a city.  Every Fahrenheit
\* city of the table has bias 1.0 and every Celsius city bias 0.5; one city
\* of each kind stands for the thirteen.
CITIES == [NYC    |-> [unit |-> "F", bias |-> 1 * Milli],
           London |-> [unit |-> "C", bias |-> Milli \div 2]]

CityNames == DOMAIN CITIES

\* MODELS, line 35
MODELS == << "best_match", "gfs_seamless", "icon_seamless", "ecmwf_ifs025" >>

\* c_to_f, lines 38-39 (exact for the multiples of 0.005 used here)
c_to_f(c) == (c * 9) \div 5 + 32 * Milli

\* the units get_bucket may be handed: the two of CITIES, and one that is
\* neither ("K")
ValidUnits == { "F", "C" }
Units == ValidUnits \cup { "K" }

\* the date string of the evaluation; the code only passes it through
TargetDate == "2026-01-15"

-----------------------------------------------------------------------------
(* The forecast provider (Open-Meteo), outside the repository              *)

TempVar == "temperature_2m_max"

\* a key of the reply's "daily" object: "time", "temperature_2m_max" or
\* "temperature_2m_max_<suffix>"
TimeKey == [var |-> "time", suffix |-> ""]
TempKey(suffix) == [var |-> TempVar, suffix |-> suffix]

\* a JSON value in a daily array: null or a number (degrees Celsius, Milli)
Null == [isNull |-> TRUE, v |-> 0]
Num(t) == [isNull |-> FALSE, v |-> t]

\* forecasts the provider may send: -1.2, 18.5 and 21.1 degrees Celsius
RawTemps == { -1200, 18500, 21100 }

\* the array sent under one key: empty, [null] or [number]
DailyArrays == { << >>, << Null >> } \cup { << Num(t) >> : t \in RawTemps }

TempKeys == { TempKey("") } \cup
            { TempKey(MODELS[i]) : i \in 2..Len(MODELS) }

\* every sequence of entries with distinct keys drawn from K
RECURSIVE EntrySeqs(_)
EntrySeqs(K) ==
    { << >> } \cup
    UNION { { << [key |-> k, vals |-> a] >> \o s :
                a \in DailyArrays, s \in EntrySeqs(K \ {k}) } : k \in K }

\* what urlopen + json.loads can give: an exception, a document without
\* "daily", or a daily object that starts with "time"
ProviderReplies ==
    { [ok |-> FALSE, daily |-> << >>], [ok |-> TRUE, daily |-> << >>] } \cup
    { [ok |-> TRUE,
       daily |-> << [key |-> TimeKey, vals |-> << Num(0) >>] >> \o s] :
         s \in EntrySeqs(TempKeys) }

-----------------------------------------------------------------------------
(* Dictionaries as insertion-ordered sequences of entries                  *)

HasKey(d, k) == \E i \in 1..Len(d) : d[i].key = k

Lookup(d, k) == d[CHOOSE i \in 1..Len(d) : d[i].key = k].val

\* d[k] = v: an existing key keeps its place, a new key goes last
DictSet(d, k, v) ==
    IF HasKey(d, k)
    THEN [i \in 1..Len(d) |-> IF d[i].key = k THEN [key |-> k, val |-> v] ELSE d[i]]
    ELSE Append(d, [key |-> k, val |-> v])

-----------------------------------------------------------------------------
(* weather_multi_source.py: fetch_all_models                               *)

\* models_param, line 61: the models named in the request
models_param == SelectSeq(MODELS, LAMBDA m : m # "best_match")

\* lines 78-80: the model a daily key belongs to
ModelOfKey(key) ==
    LET model == IF key.suffix # "" THEN key.suffix ELSE "best_match"
    IN  IF model = TempVar THEN "best_match" ELSE model

\* mutant of FetchOne: a null forecast is taken as 0.0
FetchOneZeroFill(result, entry) ==
    IF entry.key.var = "time" THEN result
    ELSE IF entry.vals # << >>
         THEN DictSet(result, ModelOfKey(entry.key), entry.vals[1].v)
         ELSE result

\* lines 74-82: one turn of the loop over daily.items()
FetchOne(result, entry) ==
    IF entry.key.var = "time" THEN result
    ELSE IF entry.vals # << >> /\ ~entry.vals[1].isNull
         THEN DictSet(result, ModelOfKey(entry.key), entry.vals[1].v)
         ELSE result

\* lines 74-82: the loop over daily.items(), in the order of the document
RECURSIVE FetchLoop(_, _)
FetchLoop(result, daily) ==
    IF daily = << >> THEN result
    ELSE FetchLoop(FetchOne(result, Head(daily)), Tail(daily))

\* fetch_all_models, lines 59-86, given the provider's reply
fetch_all_models(reply) ==
    IF ~reply.ok THEN << >>
    ELSE FetchLoop(<< >>, reply.daily)

-----------------------------------------------------------------------------
(* weather_multi_source.py: analyze_city                                   *)

\* probabilities are integers in 1/ProbScale: exact for n/1 .. n/6 and 0.25
ProbScale == 12 * 100

\* round(temp, 1)
Round1(temp) == RoundHalfEven(temp, Milli \div 10) * (Milli \div 10)

\* mutant of CorrectedTemp: the bias is added a second time
CorrectedTempTwice(cfg, temp_c) ==
    IF cfg.unit = "F" THEN c_to_f(temp_c) + cfg.bias + cfg.bias
    ELSE temp_c + cfg.bias + cfg.bias

\* lines 96-99: unit conversion and bias
CorrectedTemp(cfg, temp_c) ==
    IF cfg.unit = "F" THEN c_to_f(temp_c) + cfg.bias ELSE temp_c + cfg.bias

\* lines 95-100: one turn of the loop over model_temps.items()
AnalyzeOne(cfg, res, mt) ==
    LET temp == CorrectedTemp(cfg, mt.val)
    IN  DictSet(res, mt.key,
                [temp |-> Round1(temp), bucket |-> get_bucket(temp, cfg.unit)])

\* lines 95-100: the loop over model_temps.items()
RECURSIVE AnalyzeLoop(_, _, _)
AnalyzeLoop(cfg, res, mts) ==
    IF mts = << >> THEN res
    ELSE AnalyzeLoop(cfg, AnalyzeOne(cfg, res, Head(mts)), Tail(mts))

\* line 92: results = {}
NewResults == << >>

\* mutant of NewBucketCounts: the counts of the previous evaluation are kept
KeptBucketCounts == bucket_counts

\* line 106: bucket_counts = {}
NewBucketCounts == << >>

\* lines 107-109: one turn of the counting loop
CountOne(counts, r) ==
    LET b == r.val.bucket
    IN  DictSet(counts, b, (IF HasKey(counts, b) THEN Lookup(counts, b) ELSE 0) + 1)

\* mutant of MaxKey: a later key with an equal count replaces the earlier one
RECURSIVE MaxKeyLastFrom(_, _, _)
MaxKeyLastFrom(d, best, i) ==
    IF i > Len(d) THEN d[best].key
    ELSE MaxKeyLastFrom(d, IF d[i].val >= d[best].val THEN i ELSE best, i + 1)

MaxKeyLast(d) == MaxKeyLastFrom(d, 1, 2)

\* lines 107-109: the loop over results.items()
RECURSIVE CountLoop(_, _)
CountLoop(counts, res) ==
    IF res = << >> THEN counts
    ELSE CountLoop(CountOne(counts, Head(res)), Tail(res))

\* max(d, key=d.get): the first key, in iteration order, no later key beats
RECURSIVE MaxKeyFrom(_, _, _)
MaxKeyFrom(d, best, i) ==
    IF i > Len(d) THEN d[best].key
    ELSE MaxKeyFrom(d, IF d[i].val > d[best].val THEN i ELSE best, i + 1)

MaxKey(d) == MaxKeyFrom(d, 1, 2)

\* line 117: market_price = 0.25
market_price == ProbScale \div 4

\* mutant of ConsensusProb: the share is taken of the models configured
ConsensusProbOfConfigured(consensus, total) == (consensus * ProbScale) \div Len(MODELS)

\* line 114
ConsensusProb(consensus, total) == (consensus * ProbScale) \div total

\* mutant of Edge: the difference is taken the other way round
EdgeReversed(consensus_prob, price) == price - consensus_prob

\* line 118
Edge(consensus_prob, price) == consensus_prob - price

\* mutant of Tradeable: two agreeing sources are enough
TradeableAtTwo(consensus, total) == consensus >= 2 /\ total >= 3

\* line 120
Tradeable(consensus, total) == consensus >= 3 /\ total >= 3

\* mutant of Verdict: no data is reported as a non-tradeable default result
VerdictDefaulting(city_name, res, counts) ==
    LET best_bucket == IF res = << >> THEN BucketStr(0, 0, CITIES[city_name].unit)
                       ELSE MaxKey(counts)
        consensus == IF res = << >> THEN 0 ELSE Lookup(counts, best_bucket)
        total == Len(res)
        consensus_prob == IF res = << >> THEN 0 ELSE ConsensusProb(consensus, total)
    IN  [city |-> city_name,
         date |-> TargetDate,
         unit |-> CITIES[city_name].unit,
         models |-> res,
         bucket |-> best_bucket,
         consensus |-> [agree |-> consensus, of |-> total],
         consensus_prob |-> consensus_prob,
         market_price |-> market_price,
         edge |-> Edge(consensus_prob, market_price),
         tradeable |-> Tradeable(consensus, total)]

\* lines 102-133, from the locals `results` and `bucket_counts`
Verdict(city_name, res, counts) ==
    IF res = << >>
    THEN [city |-> city_name, error |-> "no data"]
    ELSE LET best_bucket == MaxKey(counts)
             consensus == Lookup(counts, best_bucket)
             total == Len(res)
             consensus_prob == ConsensusProb(consensus, total)
         IN  [city |-> city_name,
              date |-> TargetDate,
              unit |-> CITIES[city_name].unit,
              models |-> res,
              bucket |-> best_bucket,
              consensus |-> [agree |-> consensus, of |-> total],
              consensus_prob |-> consensus_prob,
              market_price |-> market_price,
              edge |-> Edge(consensus_prob, market_price),
              tradeable |-> Tradeable(consensus, total)]

IsError(r) == "error" \in DOMAIN r

-----------------------------------------------------------------------------
(* weather_multi_source.py: format_table                                   *)

\* "{x:.0%}": a probability as a whole percentage
Percent(p) == RoundHalfEven(p * 100, ProbScale)

\* mutant of Signal: a positive edge is shown as a trade
SignalByEdge(r) == IF r.edge > 0 THEN "[TRADE]" ELSE "[SKIP]"

\* line 146
Signal(r) == IF r.tradeable THEN "[TRADE]" ELSE "[SKIP]"

\* lines 142-151: the summary row of one result
SummaryRow(r) ==
    IF IsError(r)
    THEN [city |-> r.city, text |-> "ERROR"]
    ELSE [city |-> r.city, date |-> r.date, bucket |-> r.bucket,
          consensus |-> r.consensus, prob |-> Percent(r.consensus_prob),
          mkt |-> Percent(r.market_price), edge |-> Percent(r.edge),
          signal |-> Signal(r)]

\* lines 160-164: the detail lines of one result, in MODELS order
DetailLines(r) ==
    LET present == SelectSeq(MODELS, LAMBDA m : HasKey(r.models, m))
    IN  [i \in 1..Len(present) |->
           LET m == Lookup(r.models, present[i])
           IN  [model |-> present[i], temp |-> m.temp, unit |-> r.unit,
                bucket |-> m.bucket, marker |-> m.bucket = r.bucket]]

\* format_table(results), lines 136-167
format_table(rs) ==
    [rows |-> [i \in 1..Len(rs) |-> SummaryRow(rs[i])],
     details |-> [i \in 1..Len(SelectSeq(rs, LAMBDA r : ~IsError(r))) |->
                    LET r == SelectSeq(rs, LAMBDA x : ~IsError(x))[i]
                    IN  [city |-> r.city, lines |-> DetailLines(r)]]]

-----------------------------------------------------------------------------
(* btc_predict.py: run_ensemble                                            *)

\* class probabilities are integers in 1/ConfScale (five decimals)
ConfScale == 10 * 10 * 10 * 10 * 10

\* the models in the order of lines 93, 104, 111
ModelNames == << "rf", "xgb", "lgb" >>

\* label_map, line 89: class 0, 1, 2 (here index 1, 2, 3)
label_map == << "SELL", "BUY", "HOLD" >>

\* predict_proba rows a classifier may return (SELL, BUY, HOLD), each summing
\* to 1; the fifth has two equal largest entries
ProbVectors == { << 70003, 19997, 10000 >>,
                 << 20000, 60004, 19996 >>,
                 << 15000, 80001,  4999 >>,
                 << 10000, 30000, 60000 >>,
                 << 40000, 40000, 20000 >>,
                 << 25000, 24999, 50001 >>,
                 << 33334, 33333, 33333 >> }

\* np.argmax: the first index holding the largest entry
ArgMax(p) == CHOOSE i \in 1..Len(p) :
                /\ \A j \in 1..Len(p) : p[j] <= p[i]
                /\ \A j \in 1..(i - 1) : p[j] < p[i]

\* lines 93-100: one model's entry of model_results
ModelResult(p) ==
    LET pred_class == ArgMax(p)
    IN  [signal |-> label_map[pred_class], confidence |-> p[pred_class], probs |-> p]

\* the loop of lines 93-100 over the remaining models
RECURSIVE ModelLoop(_, _, _)
ModelLoop(d, names, pv) ==
    IF names = << >> THEN d
    ELSE ModelLoop(DictSet(d, Head(names), ModelResult(pv[Head(names)])),
                   Tail(names), pv)

\* lines 92-100: model_results
BuildModelResults(pv) == ModelLoop(<< >>, ModelNames, pv)

\* line 104: votes, in the order rf, xgb, lgb
Votes(mr) == [i \in 1..Len(ModelNames) |-> Lookup(mr, ModelNames[i]).signal]

\* Counter's counting of one element after another, new elements going last
RECURSIVE CounterLoop(_, _)
CounterLoop(c, votes) ==
    IF votes = << >> THEN c
    ELSE LET v == Head(votes)
         IN  CounterLoop(DictSet(c, v, (IF HasKey(c, v) THEN Lookup(c, v) ELSE 0) + 1),
                         Tail(votes))

\* line 105: Counter(votes)
Counter(votes) == CounterLoop(<< >>, votes)

\* line 106: vote_counts.most_common(1)[0], which is max(items, key=count)
MostCommon1(counts) ==
    LET k == MaxKey(counts) IN [signal |-> k, count |-> Lookup(counts, k)]

\* mutant of Agreeing: the mean is taken over all three classifiers
AgreeingAll(mr, signal) ==
    [i \in 1..Len(ModelNames) |-> Lookup(mr, ModelNames[i]).confidence]

\* lines 111-112: the confidences of the models whose signal is `signal`
Agreeing(mr, signal) ==
    LET names == SelectSeq(ModelNames, LAMBDA m : Lookup(mr, m).signal = signal)
    IN  [i \in 1..Len(names) |-> Lookup(mr, names[i]).confidence]

RECURSIVE SumSeq(_)
SumSeq(s) == IF s = << >> THEN 0 ELSE Head(s) + SumSeq(Tail(s))

\* round(x, 4) of x = n / (d * ConfScale), as an integer in 1/10000
Round4(n, d) == RoundHalfEven(n, d * 10)

\* mutant of EnsembleResult: only the models that voted for the emitted
\* signal are listed
EnsembleResultAgreeingOnly(mr, maj) ==
    LET signal == IF maj.count >= 2 THEN maj.signal ELSE "HOLD"
        agreeing == Agreeing(mr, signal)
        rounded == IF maj.count >= 2
                   THEN Round4(SumSeq(agreeing), Len(agreeing))
                   ELSE Round4(0, 1)
        names == SelectSeq(ModelNames, LAMBDA m : Lookup(mr, m).signal = signal)
    IN  [signal |-> signal,
         confidence |-> rounded,
         models |-> [i \in 1..Len(names) |->
                       [key |-> names[i], val |-> Lookup(mr, names[i]).signal]],
         model_confidences |-> [i \in 1..Len(names) |->
                       [key |-> names[i],
                        val |-> Round4(Lookup(mr, names[i]).confidence, 1)]]]

\* lines 108-123: the returned record
EnsembleResult(mr, maj) ==
    LET signal == IF maj.count >= 2 THEN maj.signal ELSE "HOLD"
        agreeing == Agreeing(mr, signal)
        \* confidence = mean(agreeing) is SumSeq(agreeing) / Len(agreeing)
        rounded == IF maj.count >= 2
                   THEN Round4(SumSeq(agreeing), Len(agreeing))
                   ELSE Round4(0, 1)
    IN  [signal |-> signal,
         confidence |-> rounded,
         models |-> [i \in 1..Len(ModelNames) |->
                       [key |-> ModelNames[i], val |-> Lookup(mr, ModelNames[i]).signal]],
         model_confidences |-> [i \in 1..Len(ModelNames) |->
                       [key |-> ModelNames[i],
                        val |-> Round4(Lookup(mr, ModelNames[i]).confidence, 1)]]]

-----------------------------------------------------------------------------
(* Bounds of the model                                                     *)

\* get_bucket is tried on every tenth of a degree from -TempSpan/10 to TempSpan/10
TempSpan == 45

\* evaluations of one city made in a row (the later ones replay the first reply)
MaxEvals == 2

\* runs of btc_predict made in a row (the later ones replay the first inputs)
MaxRuns == 2

\* length of the longest list of cities main is asked for
MaxCities == 3

\* length of the longest list of trades in reconciliation_data.json
MaxTrades == 2

\* runs of update_portfolio.py made in a row on the same trades
MaxUpdates == 2

-----------------------------------------------------------------------------
(* Initial states                                                          *)

NoBucket == [none |-> TRUE]
NoResult == [none |-> TRUE]
NoReply  == [ok |-> FALSE, daily |-> << >>]
NoTable  == [rows |-> << >>, details |-> << >>]
NoFirst  == [set |-> FALSE]
NoMajority == [signal |-> "", count |-> 0]
NoSummary == [tradeable |-> 0, of |-> 0]
NoEnv == [none |-> TRUE]
NoReturn == [kind |-> "none"]

gbIdle == gb_temp = 0 /\ gb_unit = "" /\ gb_out = NoBucket

wIdle == /\ w_pc = "off" /\ w_city = "" /\ w_request = << >> /\ w_reply = NoReply
         /\ model_temps = << >> /\ results = << >> /\ bucket_counts = << >>
         /\ w_result = NoResult /\ w_first = NoFirst /\ w_evals = 0
         /\ table = NoTable

bIdle == /\ b_pc = "off" /\ stdout_is = "real" /\ b_failed = ""
         /\ probs = << >> /\ model_results = << >> /\ vote_counts = << >>
         /\ majority = NoMajority /\ b_out = << >> /\ b_err = << >>
         /\ b_first = NoFirst /\ b_runs = 0

cIdle == /\ c_pc = "off" /\ cities = << >> /\ city_i = 0
         /\ run_results = << >> /\ run_replies = << >> /\ c_table = NoTable
         /\ summary = NoSummary /\ exit_code = -1

mIdle == m_pc = "off" /\ m_env = NoEnv /\ mt5_open = FALSE /\ m_ret = NoReturn

uIdle == /\ u_trades = << >> /\ u_file = << >> /\ u_before = << >>
         /\ u_wrote = FALSE /\ u_added = 0 /\ u_runs = 0

\* get_bucket(temp, unit) is about to be called
InitBucket ==
    /\ prog = "bucket"
    /\ gb_temp \in { t * (Milli \div 10) : t \in (-TempSpan)..TempSpan }
    /\ gb_unit \in Units
    /\ gb_out = NoBucket
    /\ wIdle /\ bIdle /\ cIdle /\ mIdle /\ uIdle

\* analyze_city(city_name, date_str) is about to be called
InitWeather ==
    /\ prog = "weather"
    /\ w_pc = "idle" /\ w_city \in CityNames /\ w_request = << >>
    /\ w_reply = NoReply
    /\ model_temps = << >> /\ results = << >> /\ bucket_counts = << >>
    /\ w_result = NoResult /\ w_first = NoFirst /\ w_evals = 0
    /\ table = NoTable
    /\ gbIdle /\ bIdle /\ cIdle /\ mIdle /\ uIdle

\* btc_predict.py is about to run main()
InitBtc ==
    /\ prog = "btc"
    /\ b_pc = "start" /\ stdout_is = "real" /\ b_failed = ""
    /\ probs = << >> /\ model_results = << >> /\ vote_counts = << >>
    /\ majority = NoMajority /\ b_out = << >> /\ b_err = << >>
    /\ b_first = NoFirst /\ b_runs = 0
    /\ gbIdle /\ wIdle /\ cIdle /\ mIdle /\ uIdle

-----------------------------------------------------------------------------
(* Actions: get_bucket                                                     *)

CallGetBucket ==
    /\ prog = "bucket"
    /\ gb_out = NoBucket
    /\ gb_out' = get_bucket(gb_temp, gb_unit)
    /\ UNCHANGED << prog, gb_temp, gb_unit, wVars, bVars, cVars, mVars, uVars >>

-----------------------------------------------------------------------------
(* Actions: weather                                                        *)

\* analyze_city(w_city, TargetDate), lines 89-133, fetch_all_models included.
\* The provider's reply is the input; an evaluation after the first is given
\* the first one's reply again.
AnalyzeCity ==
    /\ prog = "weather"
    /\ w_pc \in { "idle", "printed" }
    /\ w_evals < MaxEvals
    /\ \E reply \in (IF w_first.set THEN { w_first.reply } ELSE ProviderReplies) :
         LET cfg == CITIES[w_city]
             mt == fetch_all_models(reply)
             res == AnalyzeLoop(cfg, NewResults, mt)
             counts == IF res = << >> THEN << >>
                       ELSE CountLoop(NewBucketCounts, res)
             out == Verdict(w_city, res, counts)
         IN  /\ w_request' = models_param
             /\ w_reply' = reply
             /\ model_temps' = mt
             /\ results' = res
             /\ bucket_counts' = counts
             /\ w_result' = out
             /\ w_first' = IF w_first.set THEN w_first
                           ELSE [set |-> TRUE, reply |-> reply, result |-> out]
    /\ w_evals' = w_evals + 1
    /\ w_pc' = "analyzed"
    /\ UNCHANGED << prog, w_city, table, gbVars, bVars, cVars, mVars, uVars >>

\* format_table([result]), lines 136-167, and its printing
FormatTable ==
    /\ prog = "weather"
    /\ w_pc = "analyzed"
    /\ table' = format_table(<< w_result >>)
    /\ w_pc' = "printed"
    /\ UNCHANGED << prog, w_city, w_request, w_reply, model_temps, results,
                    bucket_counts, w_result, w_first, w_evals, gbVars, bVars, cVars, mVars, uVars >>

-----------------------------------------------------------------------------
(* Actions: btc_predict.main                                               *)

\* print(json.dumps(obj)) writes to whatever sys.stdout is bound to
Printed(out, obj) == Append(out, obj)

ErrorObject(msg) == [error |-> msg]

\* mutant of old_stdout: the stream kept for the end is the redirected one
RedirectedStdout == "stderr"

\* line 132: old_stdout = sys.stdout, the stream the process was started with
old_stdout == "real"

\* print(obj) with sys.stdout bound to `binding`: what the real standard
\* output holds afterwards, and what standard error holds afterwards
StdoutAfter(binding, out, obj) == IF binding = "real" THEN Printed(out, obj) ELSE out
StderrAfter(binding, err, obj) == IF binding = "real" THEN err ELSE Printed(err, obj)

\* a line the feature engineering module prints while it works (line 131)
ChatterLine == [text |-> "feature engineering output"]

\* sys.stdout = old_stdout; print(json.dumps(obj)), lines 138-139, 151-152,
\* 157-158 and 161-162, with `out` and `err` written so far
RestoreAndPrint(out, err, obj) ==
    /\ stdout_is' = old_stdout
    /\ b_out' = StdoutAfter(stdout_is', out, obj)
    /\ b_err' = StderrAfter(stdout_is', err, obj)

\* get_mt5_candles' (None, err) returns, lines 25, 30, 36, 41, 47
CandleErrors == { "MetaTrader5 module not installed", "mt5_auth.json not found",
                  "MT5 init failed", "MT5 login failed",
                  "No candle data returned from MT5" }

\* lines 128-133
MainBegin ==
    /\ prog = "btc"
    /\ b_pc = "start"
    /\ stdout_is' = "stderr"
    /\ b_pc' = "candles"
    /\ b_runs' = b_runs + 1
    /\ UNCHANGED << prog, b_failed, probs, model_results, vote_counts, majority,
                    b_out, b_err, b_first, gbVars, wVars, cVars, mVars, uVars >>

\* lines 136-140 and 160-162: get_mt5_candles returns an error, returns the
\* candles, or raises
GetCandles ==
    /\ prog = "btc"
    /\ b_pc = "candles"
    /\ \/ \E err \in CandleErrors :
            /\ RestoreAndPrint(b_out, b_err, ErrorObject(err))
            /\ b_failed' = "candles"
            /\ b_pc' = "done"
       \/ /\ b_pc' = "features"
          /\ UNCHANGED << stdout_is, b_out, b_err, b_failed >>
       \/ /\ RestoreAndPrint(b_out, b_err, ErrorObject("exception"))
          /\ b_failed' = "candles"
          /\ b_pc' = "done"
    /\ UNCHANGED << prog, probs, model_results, vote_counts, majority,
                    b_first, b_runs, gbVars, wVars, cVars, mVars, uVars >>

\* lines 142-153 and 160-162: compute_features gives a clean last row, a last
\* row with NaN in it, or raises; the feature engineering module may print
\* while it works, through whatever sys.stdout is bound to
ComputeFeatures ==
    /\ prog = "btc"
    /\ b_pc = "features"
    /\ \E chatter \in BOOLEAN :
         LET out == IF chatter THEN StdoutAfter(stdout_is, b_out, ChatterLine)
                    ELSE b_out
             err == IF chatter THEN StderrAfter(stdout_is, b_err, ChatterLine)
                    ELSE b_err
         IN  \/ /\ b_pc' = "ensemble"
                /\ b_out' = out
                /\ b_err' = err
                /\ UNCHANGED << stdout_is, b_failed >>
             \/ /\ RestoreAndPrint(out, err, ErrorObject("NaN in features"))
                /\ b_failed' = "features"
                /\ b_pc' = "done"
             \/ /\ RestoreAndPrint(out, err, ErrorObject("exception"))
                /\ b_failed' = "features"
                /\ b_pc' = "done"
    /\ UNCHANGED << prog, probs, model_results, vote_counts, majority,
                    b_first, b_runs, gbVars, wVars, cVars, mVars, uVars >>

\* lines 155-158 with run_ensemble, lines 66-123; the classifiers'
\* predict_proba rows are the input, and a run after the first is given the
\* first one's rows again
RunEnsemble ==
    /\ prog = "btc"
    /\ b_pc = "ensemble"
    /\ \E pv \in (IF b_first.set THEN { b_first.probs }
                  ELSE [ { "rf", "xgb", "lgb" } -> ProbVectors ]) :
         LET mr == BuildModelResults(pv)
             counts == Counter(Votes(mr))
             maj == MostCommon1(counts)
             out == EnsembleResult(mr, maj)
         IN  /\ probs' = pv
             /\ model_results' = mr
             /\ vote_counts' = counts
             /\ majority' = maj
             /\ RestoreAndPrint(b_out, b_err, out)
             /\ b_first' = IF b_first.set THEN b_first
                           ELSE [set |-> TRUE, probs |-> pv, result |-> out]
    /\ b_failed' = ""
    /\ b_pc' = "done"
    /\ UNCHANGED << prog, b_runs, gbVars, wVars, cVars, mVars, uVars >>

\* lines 155 and 160-162: run_ensemble raises (a model file or the config
\* cannot be loaded)
EnsembleRaises ==
    /\ prog = "btc"
    /\ b_pc = "ensemble"
    /\ RestoreAndPrint(b_out, b_err, ErrorObject("exception"))
    /\ b_failed' = "ensemble"
    /\ b_pc' = "done"
    /\ UNCHANGED << prog, probs, model_results, vote_counts, majority,
                    b_first, b_runs, gbVars, wVars, cVars, mVars, uVars >>

\* the script is started again (line 165-166), a new process
RunAgain ==
    /\ prog = "btc"
    /\ b_pc = "done"
    /\ b_runs < MaxRuns
    /\ b_pc' = "start"
    /\ b_out' = << >>
    /\ b_err' = << >>
    /\ b_failed' = ""
    /\ UNCHANGED << prog, stdout_is, probs, model_results, vote_counts, majority,
                    b_first, b_runs, gbVars, wVars, cVars, mVars, uVars >>

-----------------------------------------------------------------------------
(* weather_multi_source.py: run and main                                   *)

\* analyze_city(city_name, date_str), lines 89-133, given the provider's reply
analyze_city(city_name, reply) ==
    LET cfg == CITIES[city_name]
        res == AnalyzeLoop(cfg, NewResults, fetch_all_models(reply))
        counts == IF res = << >> THEN << >> ELSE CountLoop(NewBucketCounts, res)
    IN  Verdict(city_name, res, counts)

\* line 175: cities = list(CITIES.keys()) when no city is asked for
DefaultCities == << "NYC", "London" >>

\* a name that is not in CITIES
UnknownCity == "Atlantis"

\* the lists of cities main may be asked for: the default and every list of
\* at most MaxCities names, known or not
RequestLists ==
    { DefaultCities } \cup
    UNION { [1..n -> CityNames \cup { UnknownCity }] : n \in 0..MaxCities }

\* a reply that names the three requested models
ReplyOfThree(a, b, c) ==
    [ok |-> TRUE,
     daily |-> << [key |-> TimeKey, vals |-> << Num(0) >>],
                  [key |-> TempKey("gfs_seamless"), vals |-> a],
                  [key |-> TempKey("icon_seamless"), vals |-> b],
                  [key |-> TempKey("ecmwf_ifs025"), vals |-> c] >>]

\* the replies a batch is tried on: a failed call, no number at all, three
\* sources in one bucket, two against one, and one source without a number
BatchReplies ==
    { [ok |-> FALSE, daily |-> << >>],
      ReplyOfThree(<< Null >>, << >>, << Null >>),
      ReplyOfThree(<< Num(18500) >>, << Num(18500) >>, << Num(18500) >>),
      ReplyOfThree(<< Num(18500) >>, << Num(21100) >>, << Num(18500) >>),
      ReplyOfThree(<< Num(21100) >>, << Null >>, << Num(21100) >>) }

\* mutant of RunAppend: a city without data leaves no entry
RunAppendUnlessError(rs, r) == IF IsError(r) THEN rs ELSE Append(rs, r)

\* line 182: results.append(analyze_city(city, date_str))
RunAppend(rs, r) == Append(rs, r)

\* line 208: the results whose r.get("tradeable") is true
TradeableOnes(rs) == SelectSeq(rs, LAMBDA r : ~IsError(r) /\ r.tradeable)

\* line 209: "Tradeable opportunities: {len(tradeable)}/{len(results)}"
Summary(rs) == [tradeable |-> Len(TradeableOnes(rs)), of |-> Len(rs)]

\* mutant of ExitStatus: the run fails only when it has no result at all
ExitStatusByResults(rs) == IF rs = << >> THEN 1 ELSE 0

\* lines 211-212: sys.exit(1) when nothing is tradeable, else the end of main
ExitStatus(rs) == IF TradeableOnes(rs) = << >> THEN 1 ELSE 0

\* main() is about to call run(date_str, args.cities)
InitCli ==
    /\ prog = "cli"
    /\ c_pc = "run" /\ cities \in RequestLists /\ city_i = 1
    /\ run_results = << >> /\ run_replies = << >> /\ c_table = NoTable
    /\ summary = NoSummary /\ exit_code = -1
    /\ gbIdle /\ wIdle /\ bIdle /\ mIdle /\ uIdle

\* lines 178-181: a name that is not in CITIES is reported and passed over
RunSkipUnknown ==
    /\ prog = "cli"
    /\ c_pc = "run"
    /\ city_i <= Len(cities)
    /\ cities[city_i] \notin CityNames
    /\ city_i' = city_i + 1
    /\ UNCHANGED << prog, c_pc, cities, run_results, run_replies, c_table,
                    summary, exit_code, gbVars, wVars, bVars, mVars, uVars >>

\* lines 178-182: a city of CITIES is analyzed and its result appended
RunAnalyze ==
    /\ prog = "cli"
    /\ c_pc = "run"
    /\ city_i <= Len(cities)
    /\ cities[city_i] \in CityNames
    /\ \E reply \in BatchReplies :
         /\ run_results' = RunAppend(run_results, analyze_city(cities[city_i], reply))
         /\ run_replies' = IF Len(run_results') > Len(run_results)
                           THEN Append(run_replies, reply) ELSE run_replies
    /\ city_i' = city_i + 1
    /\ UNCHANGED << prog, c_pc, cities, c_table, summary, exit_code,
                    gbVars, wVars, bVars, mVars, uVars >>

\* lines 184 and 204-212: run returns; main prints the table and the count
\* of tradeable results and exits
MainReport ==
    /\ prog = "cli"
    /\ c_pc = "run"
    /\ city_i > Len(cities)
    /\ c_table' = format_table(run_results)
    /\ summary' = Summary(run_results)
    /\ exit_code' = ExitStatus(run_results)
    /\ c_pc' = "exited"
    /\ UNCHANGED << prog, cities, city_i, run_results, run_replies,
                    gbVars, wVars, bVars, mVars, uVars >>

-----------------------------------------------------------------------------
(* btc_predict.py: get_mt5_candles                                         *)

\* the keys line 38 reads from mt5_auth.json
AuthKeys == { "login", "password", "server" }

\* what a call of get_mt5_candles may find: whether MetaTrader5 can be
\* imported, the auth file (missing, not JSON, or a JSON object with some of
\* the keys), whether the terminal initializes and accepts the login, and
\* what copy_rates_from_pos gives (None, an empty array, rows)
CandleEnvs ==
    [installed : BOOLEAN,
     auth_file : { "missing", "unreadable", "ok" },
     auth_keys : SUBSET AuthKeys,
     init_ok   : BOOLEAN,
     login_ok  : BOOLEAN,
     rates     : { "none", "empty", "rows" }]

ReturnError(msg) == [kind |-> "error", msg |-> msg]
ReturnFrame == [kind |-> "frame"]
Raised(exc) == [kind |-> "raised", exc |-> exc]

\* get_mt5_candles(300) is about to be called
InitCandles ==
    /\ prog = "candles"
    /\ m_pc = "import" /\ m_env \in CandleEnvs
    /\ mt5_open = FALSE /\ m_ret = NoReturn
    /\ gbIdle /\ wIdle /\ bIdle /\ cIdle /\ uIdle

\* lines 22-25: import MetaTrader5
ImportMt5 ==
    /\ prog = "candles"
    /\ m_pc = "import"
    /\ IF m_env.installed
       THEN m_pc' = "auth" /\ UNCHANGED m_ret
       ELSE /\ m_pc' = "left"
            /\ m_ret' = ReturnError("MetaTrader5 module not installed")
    /\ UNCHANGED << prog, m_env, mt5_open, gbVars, wVars, bVars, cVars, uVars >>

\* lines 28-33: the auth file is looked for and loaded
LoadAuth ==
    /\ prog = "candles"
    /\ m_pc = "auth"
    /\ CASE m_env.auth_file = "missing" ->
              m_pc' = "left" /\ m_ret' = ReturnError("mt5_auth.json not found")
         [] m_env.auth_file = "unreadable" ->
              m_pc' = "left" /\ m_ret' = Raised("JSONDecodeError")
         [] m_env.auth_file = "ok" ->
              m_pc' = "initialize" /\ UNCHANGED m_ret
    /\ UNCHANGED << prog, m_env, mt5_open, gbVars, wVars, bVars, cVars, uVars >>

\* lines 35-36: mt5.initialize()
Initialize ==
    /\ prog = "candles"
    /\ m_pc = "initialize"
    /\ IF m_env.init_ok
       THEN mt5_open' = TRUE /\ m_pc' = "login" /\ UNCHANGED m_ret
       ELSE /\ UNCHANGED mt5_open
            /\ m_pc' = "left"
            /\ m_ret' = ReturnError("MT5 init failed")
    /\ UNCHANGED << prog, m_env, gbVars, wVars, bVars, cVars, uVars >>

\* lines 38-41: the arguments auth['login'], auth['password'] and
\* auth['server'] are evaluated, then mt5.login is called; a refused login
\* shuts the session down and returns an error
Login ==
    /\ prog = "candles"
    /\ m_pc = "login"
    /\ CASE m_env.auth_keys # AuthKeys ->
              /\ UNCHANGED mt5_open
              /\ m_pc' = "left"
              /\ m_ret' = Raised("KeyError")
         [] m_env.auth_keys = AuthKeys /\ ~m_env.login_ok ->
              /\ mt5_open' = FALSE
              /\ m_pc' = "left"
              /\ m_ret' = ReturnError("MT5 login failed")
         [] m_env.auth_keys = AuthKeys /\ m_env.login_ok ->
              /\ UNCHANGED << mt5_open, m_ret >>
              /\ m_pc' = "rates"
    /\ UNCHANGED << prog, m_env, gbVars, wVars, bVars, cVars, uVars >>

\* lines 43-44: copy_rates_from_pos, then mt5.shutdown()
CopyRates ==
    /\ prog = "candles"
    /\ m_pc = "rates"
    /\ mt5_open' = FALSE
    /\ m_pc' = "frame"
    /\ UNCHANGED << prog, m_env, m_ret, gbVars, wVars, bVars, cVars, uVars >>

\* lines 46-53: no rows is an error, rows are returned as a data frame
ReturnCandles ==
    /\ prog = "candles"
    /\ m_pc = "frame"
    /\ m_ret' = IF m_env.rates \in { "none", "empty" }
                THEN ReturnError("No candle data returned from MT5")
                ELSE ReturnFrame
    /\ m_pc' = "left"
    /\ UNCHANGED << prog, m_env, mt5_open, gbVars, wVars, bVars, cVars, uVars >>

-----------------------------------------------------------------------------
(* scripts/update_portfolio.py                                             *)

\* Strings the script searches in are sequences of characters.  Prices are
\* integers in cents, sizes in tenths of a share, costs in cents times
\* tenths; an average price is the pair of the cost and the shares it is
\* the quotient of.  With the prices and sizes below the script's float
\* comparisons give what the exact ones give.

\* asset ids: the second begins with the first
Tokens == { << "1", "2" >>, << "1", "2", "3" >> }

Prices == { 80, 90 }
Sizes == { 5, 10 }
Outcomes == { "Yes", "No" }

\* the trades a reconciliation may list; of a sale only the size matters
TradeKinds ==
    { t \in [asset_id : Tokens, side : { "BUY", "SELL" }, price : Prices,
             size : Sizes, outcome : Outcomes,
             match_time : { "2026-01-15T12:00:00Z" }] :
        t.side = "SELL" => (t.price = 90 /\ t.outcome = "Yes") }

TradeLists == UNION { [1..n -> TradeKinds] : n \in 0..MaxTrades }

\* side.lower() of line 71, as characters
SideChars(side) == IF side = "YES" THEN << "y", "e", "s" >> ELSE << "n", "o" >>

\* line 71: key = f"{token}_{side.lower()}"
KeyStr(token, side) == token \o << "_" >> \o SideChars(side)

\* Python's `a in b` on strings
Infix(a, b) == \E i \in 0..(Len(b) - Len(a)) : SubSeq(b, i + 1, i + Len(a)) = a

\* a position another strategy of the bot keeps in portfolio_state.json
OtherPosition == [market_slug |-> "btc-updown-5m", side |-> "YES",
                  shares |-> 100, cost_basis |-> 5000]

\* ps['positions'] before the script runs: none, or one position under a
\* key the script would give to one of the asset ids
InitialPortfolios ==
    { << >> } \cup
    { << [key |-> KeyStr(tok, side), val |-> OtherPosition] >> :
        tok \in Tokens, side \in { "YES", "NO" } }

\* line 21: entry
TradeEntry(t) == [price |-> t.price, size |-> t.size, cost |-> t.price * t.size,
                  time |-> t.match_time, outcome |-> t.outcome]

\* lines 14-25: one turn of the loop over trades
GroupOne(by_token, t) ==
    LET token == t.asset_id
        d == IF HasKey(by_token, token) THEN by_token
             ELSE DictSet(by_token, token,
                          [buys |-> << >>, sells |-> << >>, market |-> ""])
        td == Lookup(d, token)
    IN  DictSet(d, token,
                IF t.side = "BUY"
                THEN [td EXCEPT !.buys = Append(@, TradeEntry(t))]
                ELSE [td EXCEPT !.sells = Append(@, TradeEntry(t))])

\* lines 12-25: by_token
RECURSIVE GroupLoop(_, _)
GroupLoop(by_token, trades) ==
    IF trades = << >> THEN by_token
    ELSE GroupLoop(GroupOne(by_token, Head(trades)), Tail(trades))

\* sum(e['size'] for e in es) and sum(e['cost'] for e in es)
RECURSIVE SumSizes(_)
SumSizes(es) == IF es = << >> THEN 0 ELSE Head(es).size + SumSizes(Tail(es))

RECURSIVE SumCosts(_)
SumCosts(es) == IF es = << >> THEN 0 ELSE Head(es).cost + SumCosts(Tail(es))

\* lines 33-35
buy_shares(td) == SumSizes(td.buys)
sell_shares(td) == SumSizes(td.sells)
net_shares(td) == buy_shares(td) - sell_shares(td)

\* line 40: avg_price, the quotient num / den (cents)
avg_price(td) ==
    IF buy_shares(td) > 0
    THEN [num |-> SumCosts(td.buys), den |-> buy_shares(td)]
    ELSE [num |-> 0, den |-> 1]

\* line 37: the smallest net position that counts as open, 0.5 shares
MinNetShares == 5

\* line 42: the lowest average price of a sniper position, 0.90
SniperPrice == 90

\* avg < cents
PriceBelow(avg, cents) == avg.num < cents * avg.den

\* mutant of AlreadyTracked: a position counts as tracked only under the
\* key of the YES side
AlreadyTrackedAsYes(token, existing_tokens) ==
    KeyStr(token, "YES") \in existing_tokens

\* lines 46-50: some existing key has the token in it
AlreadyTracked(token, existing_tokens) ==
    \E existing_key \in existing_tokens : Infix(token, existing_key)

\* line 56
SideOfOutcome(outcome) ==
    IF outcome = "Yes" THEN "YES" ELSE IF outcome = "No" THEN "NO" ELSE "YES"

\* lines 53-69: new_pos; "{avg_price:.4f}" is the average in 1/10000
NewPosition(token, td) ==
    [condition_id |-> token,
     token_id |-> token,
     market_slug |-> "sniper-position",
     market_question |-> [avg4 |-> RoundHalfEven(avg_price(td).num * 100,
                                                 avg_price(td).den)],
     side |-> SideOfOutcome(td.buys[1].outcome),
     shares |-> net_shares(td),
     cost_basis |-> SumCosts(td.buys) - SumCosts(td.sells),
     avg_entry_price |-> avg_price(td),
     current_price |-> avg_price(td),
     opened_at |-> td.buys[1].time]

\* lines 32-74: one turn of the loop over by_token.items(); acc is
\* ps['positions'] with new_positions
AddOne(acc, existing_tokens, e) ==
    LET token == e.key
        td == e.val
    IN  IF net_shares(td) < MinNetShares THEN acc
        ELSE IF PriceBelow(avg_price(td), SniperPrice) THEN acc
        ELSE IF AlreadyTracked(token, existing_tokens) THEN acc
        ELSE LET new_pos == NewPosition(token, td)
             IN  [ps |-> DictSet(acc.ps, KeyStr(token, new_pos.side), new_pos),
                  n |-> acc.n + 1]

\* lines 31-74: the loop over by_token.items()
RECURSIVE AddLoop(_, _, _)
AddLoop(acc, existing_tokens, by_token) ==
    IF by_token = << >> THEN acc
    ELSE AddLoop(AddOne(acc, existing_tokens, Head(by_token)),
                 existing_tokens, Tail(by_token))

\* lines 6-74: ps['positions'] and new_positions when the loop has ended
update_portfolio(trades, positions) ==
    LET by_token == GroupLoop(<< >>, trades)
        existing_tokens == { positions[i].key : i \in 1..Len(positions) }
    IN  AddLoop([ps |-> positions, n |-> 0], existing_tokens, by_token)

\* the script is about to run on a reconciliation and a portfolio file
InitLedger ==
    /\ prog = "ledger"
    /\ u_trades \in TradeLists
    /\ u_file \in InitialPortfolios
    /\ u_before = << >> /\ u_wrote = FALSE /\ u_added = 0 /\ u_runs = 0
    /\ gbIdle /\ wIdle /\ bIdle /\ cIdle /\ mIdle

\* one run of the script, lines 6-81: the file is written only when
\* new_positions > 0
UpdatePortfolio ==
    /\ prog = "ledger"
    /\ u_runs < MaxUpdates
    /\ LET r == update_portfolio(u_trades, u_file)
       IN  /\ u_file' = IF r.n > 0 THEN r.ps ELSE u_file
           /\ u_wrote' = (r.n > 0)
           /\ u_added' = r.n
    /\ u_before' = u_file
    /\ u_runs' = u_runs + 1
    /\ UNCHANGED << prog, u_trades, gbVars, wVars, bVars, cVars, mVars >>

-----------------------------------------------------------------------------
(* Specifications                                                          *)

NextBucket == CallGetBucket
NextCli == RunSkipUnknown \/ RunAnalyze \/ MainReport
NextCandles == ImportMt5 \/ LoadAuth \/ Initialize \/ Login \/ CopyRates
               \/ ReturnCandles
NextWeather == AnalyzeCity \/ FormatTable
NextBtc == \/ MainBegin \/ GetCandles \/ ComputeFeatures
           \/ RunEnsemble \/ EnsembleRaises \/ RunAgain

\* get_bucket alone, over a dense range of temperatures
SpecBucket == InitBucket /\ [][NextBucket]_vars

\* one city evaluated and printed
SpecWeather == InitWeather /\ [][NextWeather]_vars

\* one run of btc_predict.py
SpecBtc == InitBtc /\ [][NextBtc]_vars

\* the command line of weather_multi_source.py: run over a list of cities
SpecCli == InitCli /\ [][NextCli]_vars

\* scripts/update_portfolio.py run again and again
NextLedger == UpdatePortfolio
SpecLedger == InitLedger /\ [][NextLedger]_vars

\* get_mt5_candles called on its own
SpecCandles == InitCandles /\ [][NextCandles]_vars

\* either script
Init == InitWeather \/ InitBtc
Next == NextWeather \/ NextBtc
Spec == Init /\ [][Next]_vars

-----------------------------------------------------------------------------
(* Vocabulary of the properties                                            *)

BucketDone == prog = "bucket" /\ gb_out # NoBucket

\* analyze_city has returned
Evaluated == prog = "weather" /\ w_pc \in { "analyzed", "printed" }

\* main has printed and returned
BtcDone == prog = "btc" /\ b_pc = "done"

\* main has printed run_ensemble's result
BtcPredicted == BtcDone /\ b_failed = ""

\* the bucket width the market uses for a unit
StepOf(unit) == IF unit = "F" THEN 2 ELSE 1

\* the entries of a reply that carry a number: the sources that produced data
Usable(reply) ==
    IF reply.ok
    THEN SelectSeq(reply.daily, LAMBDA e : /\ e.key.var = TempVar
                                           /\ e.vals # << >>
                                           /\ ~e.vals[1].isNull)
    ELSE << >>

\* the model a reply entry speaks for
SourceOf(e) == IF e.key.suffix = "" THEN "best_match" ELSE e.key.suffix

\* how many sources of the evaluation landed in bucket b
Landed(b) == Cardinality({ i \in 1..Len(results) : results[i].val.bucket = b })

\* signal and confidence of classifier i
SignalOf(i) == Lookup(model_results, ModelNames[i]).signal
ConfOf(i) == Lookup(model_results, ModelNames[i]).confidence

\* the classifiers that voted for label l, and the sum of their confidences
Voters(l) == { i \in 1..3 : SignalOf(i) = l }
ConfSum(S) == (IF 1 \in S THEN ConfOf(1) ELSE 0) + (IF 2 \in S THEN ConfOf(2) ELSE 0)
              + (IF 3 \in S THEN ConfOf(3) ELSE 0)

Labels == { "BUY", "SELL", "HOLD" }

-----------------------------------------------------------------------------
(* C1 *)

\* C1: for every temperature and each unit, get_bucket returns the bucket
\* [base, base+step) of width 2 (F) or 1 (C) that contains the value: the
\* floor toward negative infinity, get_bucket(-0.5, "C") being "-1-0°C".
C1_BucketContainsValue ==
    (BucketDone /\ gb_unit \in ValidUnits) =>
        /\ gb_out.hi - gb_out.lo = StepOf(gb_unit)
        /\ gb_out.lo * Milli <= gb_temp
        /\ gb_temp < gb_out.hi * Milli

-----------------------------------------------------------------------------
(* C2 *)

\* C2 as stated: with a label two or three classifiers share, the emitted
\* signal is that label and the emitted confidence is exactly the mean of the
\* confidences of its voters; with three different labels the signal is HOLD
\* and the confidence 0.
C2_ConfidenceIsExactMean ==
    BtcPredicted =>
        LET r == b_out[1]
        IN  /\ \A l \in Labels :
                 Cardinality(Voters(l)) >= 2 =>
                     /\ r.signal = l
                     /\ r.confidence * 10 * Cardinality(Voters(l)) = ConfSum(Voters(l))
            /\ (\A l \in Labels : Cardinality(Voters(l)) < 2) =>
                     r.signal = "HOLD" /\ r.confidence = 0

\* C2 amended: the emitted confidence is that mean rounded to four decimals
\* (the nearest multiple of 0.0001), the dissenting classifier's confidence
\* taking no part in it; without a majority the signal is HOLD with 0.
C2_MajorityRoundedMean ==
    BtcPredicted =>
        LET r == b_out[1]
        IN  /\ \A l \in Labels :
                 Cardinality(Voters(l)) >= 2 =>
                     /\ r.signal = l
                     /\ r.confidence =
                          RoundHalfEven(ConfSum(Voters(l)), 10 * Cardinality(Voters(l)))
                     /\ 2 * Abs(r.confidence * 10 * Cardinality(Voters(l))
                                - ConfSum(Voters(l))) <= 10 * Cardinality(Voters(l))
            /\ (\A l \in Labels : Cardinality(Voters(l)) < 2) =>
                     r.signal = "HOLD" /\ r.confidence = 0

\* a two-to-one vote whose dissenter is more confident than both voters
C2_Witness ==
    /\ BtcPredicted
    /\ \E l \in Labels : \E d \in 1..3 :
         /\ Voters(l) = (1..3) \ {d}
         /\ \A i \in Voters(l) : ConfOf(d) > ConfOf(i)
         /\ b_out[1].signal = l

-----------------------------------------------------------------------------
(* C3 *)

\* C3: when no source produced data the evaluation ends in the error record,
\* which holds the city and the error and nothing else (no bucket, no
\* confidence, no tradeable flag); and when btc_predict cannot obtain candles
\* or features it prints one error object, with no signal and no confidence.
C3_NoDataIsAnError ==
    /\ (Evaluated /\ Len(Usable(w_reply)) = 0) =>
           /\ DOMAIN w_result = { "city", "error" }
           /\ w_result.error = "no data"
    /\ (Evaluated /\ w_pc = "printed" /\ Len(Usable(w_reply)) = 0) =>
           /\ DOMAIN table.rows[1] = { "city", "text" }
           /\ table.details = << >>
    /\ (BtcDone /\ b_failed \in { "candles", "features" }) =>
           /\ Len(b_out) = 1
           /\ DOMAIN b_out[1] = { "error" }

\* a reply that names sources and gives a number for none of them
C3_Witness ==
    /\ Evaluated
    /\ w_reply.ok /\ Len(w_reply.daily) >= 3
    /\ Len(Usable(w_reply)) = 0
    /\ IsError(w_result)

-----------------------------------------------------------------------------
(* C4 *)

\* the thresholds of line 120
MinAgreementCount == 3
MinTotalSources == 3

\* C4: a result is marked tradeable exactly when at least 3 sources landed in
\* the winning bucket and at least 3 sources produced data.
C4_TradeableIffThreeAgree ==
    (Evaluated /\ ~IsError(w_result)) =>
        (w_result.tradeable <=>
            /\ Landed(w_result.bucket) >= MinAgreementCount
            /\ Len(Usable(w_reply)) >= MinTotalSources)

\* three of four sources agree and the result is tradeable
C4_Witness ==
    /\ Evaluated /\ ~IsError(w_result)
    /\ Len(Usable(w_reply)) = 4
    /\ Landed(w_result.bucket) = 3
    /\ w_result.tradeable

-----------------------------------------------------------------------------
(* C5 *)

\* the values of min_edge the specification names: 0.5 and 0.6
MinEdges == { ProbScale \div 2, (6 * ProbScale) \div 10 }

-----------------------------------------------------------------------------
(* C6 *)

\* C6: consensus is the number of sources in the winning bucket, total the
\* number of sources that produced a value, consensus_prob their quotient,
\* and 1 <= consensus <= total.
C6_ConsensusCounts ==
    (Evaluated /\ ~IsError(w_result)) =>
        /\ w_result.consensus.agree = Landed(w_result.bucket)
        /\ w_result.consensus.of = Len(Usable(w_reply))
        /\ w_result.consensus_prob * w_result.consensus.of
              = w_result.consensus.agree * ProbScale
        /\ 1 <= w_result.consensus.agree
        /\ w_result.consensus.agree <= w_result.consensus.of

\* four sources in buckets A, A, A, B: consensus 3, total 4, confidence 0.75
C6_Witness ==
    /\ Evaluated /\ ~IsError(w_result)
    /\ Len(results) = 4
    /\ results[1].val.bucket = results[2].val.bucket
    /\ results[2].val.bucket = results[3].val.bucket
    /\ results[4].val.bucket # results[1].val.bucket
    /\ w_result.consensus = [agree |-> 3, of |-> 4]
    /\ w_result.consensus_prob * 4 = 3 * ProbScale

-----------------------------------------------------------------------------
(* C7 *)

\* position of the first source that landed in bucket b
FirstLanded(b) == CHOOSE i \in 1..Len(results) :
                     /\ results[i].val.bucket = b
                     /\ \A j \in 1..(i - 1) : results[j].val.bucket # b

\* position of the first classifier that voted l
FirstVoter(l) == CHOOSE i \in 1..3 : SignalOf(i) = l /\ \A j \in 1..(i - 1) : SignalOf(j) # l

\* C7: the winning category has the highest count, and among the categories
\* that share the highest count it is the one met first in the order the
\* sources were fed into the vote (the order of the reply for the forecasts,
\* rf, xgb, lgb for the classifiers).
C7_FirstOfTheTiedWins ==
    /\ (Evaluated /\ ~IsError(w_result)) =>
          /\ Len(results) = Len(Usable(w_reply))
          /\ \A i \in 1..Len(results) :
                /\ results[i].key = SourceOf(Usable(w_reply)[i])
                /\ Landed(results[i].val.bucket) <= Landed(w_result.bucket)
                /\ Landed(results[i].val.bucket) = Landed(w_result.bucket)
                      => FirstLanded(w_result.bucket) <= i
    /\ BtcPredicted =>
          /\ majority.count = Cardinality(Voters(majority.signal))
          /\ \A i \in 1..3 :
                /\ Cardinality(Voters(SignalOf(i))) <= majority.count
                /\ Cardinality(Voters(SignalOf(i))) = majority.count
                      => FirstVoter(majority.signal) <= i

\* four sources split two against two, the bucket of the first one winning
C7_Witness ==
    /\ Evaluated /\ ~IsError(w_result)
    /\ Len(results) = 4
    /\ Landed(w_result.bucket) = 2
    /\ \E i \in 2..4 : /\ results[i].val.bucket # w_result.bucket
                       /\ Landed(results[i].val.bucket) = 2
    /\ results[1].val.bucket = w_result.bucket

-----------------------------------------------------------------------------
(* C8 *)

-----------------------------------------------------------------------------
(* C9 *)

\* C9: the row of a result that is not tradeable shows [SKIP], never [TRADE],
\* while the winning bucket and its confidence are still in the result and in
\* the row.
C9_NotTradeableShowsSkip ==
    (Evaluated /\ w_pc = "printed" /\ ~IsError(w_result) /\ ~w_result.tradeable) =>
        /\ table.rows[1].signal = "[SKIP]"
        /\ table.rows[1].bucket = w_result.bucket
        /\ table.rows[1].prob = Percent(w_result.consensus_prob)
        /\ Landed(w_result.bucket) >= 1
        /\ w_result.consensus_prob * Len(results) = Landed(w_result.bucket) * ProbScale

\* two of four sources agree: a positive edge, not tradeable, shown as [SKIP]
C9_Witness ==
    /\ Evaluated /\ w_pc = "printed" /\ ~IsError(w_result)
    /\ ~w_result.tradeable
    /\ w_result.consensus = [agree |-> 2, of |-> 4]
    /\ w_result.edge > 0
    /\ table.rows[1].signal = "[SKIP]"

-----------------------------------------------------------------------------
(* C10 *)

-----------------------------------------------------------------------------
(* C11 *)

\* the fields of a result of analyze_city that is not an error
ResultFields == { "city", "date", "unit", "models", "bucket", "consensus",
                  "consensus_prob", "market_price", "edge", "tradeable" }

\* the fields of the object main prints after run_ensemble
PredictionFields == { "signal", "confidence", "models", "model_confidences" }

\* the keys of a dictionary, in its order
KeysOf(d) == [i \in 1..Len(d) |-> d[i].key]

\* C11: an outcome is a full result or an explicit error, never a part of
\* one.  analyze_city returns either a record of city and error alone, or a
\* record with every result field, a non-empty per-source map and a bucket
\* one of the sources landed in; main of btc_predict prints exactly one
\* object, either an error alone or signal, confidence, models and
\* model_confidences with an entry for each of the three models.
C11_FullResultOrError ==
    /\ Evaluated =>
         \/ DOMAIN w_result = { "city", "error" }
         \/ /\ DOMAIN w_result = ResultFields
            /\ w_result.models # << >>
            /\ \E i \in 1..Len(w_result.models) :
                 w_result.models[i].val.bucket = w_result.bucket
            /\ w_result.consensus.agree >= 1
            /\ w_result.consensus.of = Len(w_result.models)
    /\ BtcDone =>
         /\ Len(b_out) = 1
         /\ \/ DOMAIN b_out[1] = { "error" }
            \/ /\ DOMAIN b_out[1] = PredictionFields
               /\ KeysOf(b_out[1].models) = ModelNames
               /\ KeysOf(b_out[1].model_confidences) = ModelNames

\* a prediction is printed in which one classifier was outvoted
C11_Witness ==
    /\ BtcPredicted
    /\ majority.count = 2
    /\ DOMAIN b_out[1] = PredictionFields
    /\ \E i \in 1..Len(b_out[1].models) :
         b_out[1].models[i].val # b_out[1].signal

-----------------------------------------------------------------------------
(* C12 *)

\* C12 as stated: the per-source map of a result has an entry for every
\* model of MODELS, and so has the printed breakdown.
C12_EntryPerConfiguredSource ==
    (Evaluated /\ ~IsError(w_result)) =>
        /\ \A i \in 1..Len(MODELS) : HasKey(w_result.models, MODELS[i])
        /\ w_pc = "printed" =>
             Len(table.details[1].lines) = Len(MODELS)

-----------------------------------------------------------------------------
(* C13 *)

\* the forecast of a source with the city's bias added once: the raw value,
\* in Fahrenheit for a Fahrenheit city, plus the bias
BiasedOnce(city_name, raw) ==
    IF CITIES[city_name].unit = "F"
    THEN (raw * 9) \div 5 + 32 * Milli + CITIES[city_name].bias
    ELSE raw + CITIES[city_name].bias

\* C13: for every source with a forecast, the bucket recorded is the bucket
\* of the raw forecast (in the city's unit) plus the bias added once, and
\* the temperature recorded is that sum rounded to one decimal.
C13_BiasOnceBeforeBucket ==
    Evaluated =>
        /\ Len(results) = Len(model_temps)
        /\ \A i \in 1..Len(results) :
             LET handed == BiasedOnce(w_city, model_temps[i].val)
             IN  /\ results[i].key = model_temps[i].key
                 /\ results[i].val.bucket = get_bucket(handed, CITIES[w_city].unit)
                 /\ results[i].val.temp = Round1(handed)

\* a Celsius city with a forecast of 18.5 degrees, reported as 19.0 in 19-20
C13_Witness ==
    /\ Evaluated
    /\ w_city = "London"
    /\ \E i \in 1..Len(results) :
         /\ model_temps[i].val = 18500
         /\ results[i].val.temp = 19000
         /\ results[i].val.bucket = BucketStr(19, 1, "C")

-----------------------------------------------------------------------------
(* C14 *)

\* C14 as stated: a unit that is neither F nor C gives a configuration
\* error and no bucket.
C14_UnknownUnitRejected ==
    (BucketDone /\ gb_unit \notin ValidUnits) =>
        /\ "error" \in DOMAIN gb_out
        /\ "lo" \notin DOMAIN gb_out

-----------------------------------------------------------------------------
(* C15 *)

\* C15: for a unit of F or C the bucket returned carries that unit, its
\* upper end is its base plus the step (2 for F, 1 for C), and its base is
\* an integer multiple of the step, for negative temperatures too.
C15_RenderedOnTheStepGrid ==
    (BucketDone /\ gb_unit \in ValidUnits) =>
        /\ DOMAIN gb_out = { "lo", "hi", "unit" }
        /\ gb_out.unit = gb_unit
        /\ gb_out.hi = gb_out.lo + StepOf(gb_unit)
        /\ gb_out.lo % StepOf(gb_unit) = 0

\* a negative Fahrenheit temperature off the grid, with a negative base
C15_Witness ==
    /\ BucketDone
    /\ gb_unit = "F"
    /\ gb_temp < 0
    /\ gb_temp % (2 * Milli) # 0
    /\ gb_out.lo < 0


-----------------------------------------------------------------------------
(* C16 *)

\* run is under way or has returned
Running == prog = "cli" /\ c_pc \in { "run", "exited" }

\* the names of a list that are in CITIES, in the order of the list
Known(names) == SelectSeq(names, LAMBDA c : c \in CityNames)

\* the requested cities the loop of run has passed
Passed == SubSeq(cities, 1, city_i - 1)

\* C16: at every point of the batch the results are one per known city
\* passed, in the order requested; a city whose reply has no usable source
\* gives an error entry and a city with usable sources a result over exactly
\* those sources, whatever came before it; an unknown name gives no entry.
C16_OneResultPerKnownCity ==
    Running =>
        /\ Len(run_results) = Len(Known(Passed))
        /\ Len(run_replies) = Len(run_results)
        /\ \A k \in 1..Len(run_results) :
             /\ run_results[k].city = Known(Passed)[k]
             /\ IsError(run_results[k]) <=> Usable(run_replies[k]) = << >>
             /\ ~IsError(run_results[k]) =>
                  run_results[k].consensus.of = Len(Usable(run_replies[k]))

\* main has exited after a request that named an unknown city and a city
\* without data followed by a city with a tradeable result
C16_Witness ==
    /\ prog = "cli" /\ c_pc = "exited"
    /\ \E i \in 1..Len(cities) : cities[i] \notin CityNames
    /\ \E k \in 1..(Len(run_results) - 1) :
         /\ IsError(run_results[k])
         /\ ~IsError(run_results[k + 1])
         /\ run_results[k + 1].tradeable

-----------------------------------------------------------------------------
(* C17 *)

\* C17 as stated: a city without data is shown as an ERROR row and a city
\* with a non-tradeable result as a [SKIP] row, and the closing count keeps
\* the two apart: the results it counts are the cities that produced one.
C17_ErrorAndSkipKeptApart ==
    (prog = "cli" /\ c_pc = "exited") =>
        /\ Len(c_table.rows) = Len(run_results)
        /\ \A k \in 1..Len(run_results) :
             /\ IsError(run_results[k]) =>
                  /\ c_table.rows[k] = [city |-> run_results[k].city, text |-> "ERROR"]
             /\ (~IsError(run_results[k]) /\ ~run_results[k].tradeable) =>
                  /\ "text" \notin DOMAIN c_table.rows[k]
                  /\ c_table.rows[k].signal = "[SKIP]"
        /\ summary.of = Len(SelectSeq(run_results, LAMBDA r : ~IsError(r)))

-----------------------------------------------------------------------------
(* C18 *)

\* C18: main exits with status 1 when no result of the run is tradeable
\* (every city without data, every result a skip, or no city evaluated) and
\* with status 0 when at least one result is tradeable.
C18_ExitTellsTradeable ==
    (prog = "cli" /\ c_pc = "exited") =>
        /\ exit_code \in { 0, 1 }
        /\ exit_code = 0 <=>
             \E k \in 1..Len(run_results) :
                 ~IsError(run_results[k]) /\ run_results[k].tradeable

\* every city evaluated was without data and main exited with status 1
C18_Witness ==
    /\ prog = "cli" /\ c_pc = "exited"
    /\ run_results # << >>
    /\ \A k \in 1..Len(run_results) : IsError(run_results[k])
    /\ exit_code = 1

-----------------------------------------------------------------------------
(* C19 *)

\* the reply answers the request: it has one temperature key per model
\* named in the request, each with a number, and no other temperature key
Answers(reply, request) ==
    /\ reply.ok
    /\ \A j \in 1..Len(request) :
         \E i \in 1..Len(reply.daily) :
             /\ reply.daily[i].key = TempKey(request[j])
             /\ reply.daily[i].vals # << >>
             /\ ~reply.daily[i].vals[1].isNull
    /\ \A i \in 1..Len(reply.daily) :
         reply.daily[i].key.var = TempVar =>
             \E j \in 1..Len(request) : reply.daily[i].key = TempKey(request[j])

\* C19 as stated: every model of MODELS is named in the request, and a
\* reply that answers the request gives one temperature per model of MODELS.
C19_AllModelsRequested ==
    Evaluated =>
        /\ \A i \in 1..Len(MODELS) :
             \E j \in 1..Len(w_request) : w_request[j] = MODELS[i]
        /\ Answers(w_reply, w_request) =>
             /\ Len(model_temps) = Len(MODELS)
             /\ w_result.consensus.of = Len(MODELS)

-----------------------------------------------------------------------------
(* C20 *)

\* C20 as stated: in a result, the temperature shown for a source lies in
\* the half-open interval of the bucket shown for that source.
C20_ShownTempInShownBucket ==
    (Evaluated /\ ~IsError(w_result)) =>
        \A i \in 1..Len(w_result.models) :
            LET m == w_result.models[i].val
            IN  /\ m.bucket.lo * Milli <= m.temp
                /\ m.temp < m.bucket.hi * Milli


-----------------------------------------------------------------------------
(* C21 *)

\* main is between its redirection of sys.stdout and its print
Redirected == prog = "btc" /\ b_pc \in { "candles", "features", "ensemble" }

-----------------------------------------------------------------------------
(* C22 *)

\* control has left get_mt5_candles, by a return or by an exception
CandlesLeft == prog = "candles" /\ m_pc = "left"

\* C22 as stated: whenever control has left get_mt5_candles, by whatever
\* path, a session that mt5.initialize() opened has been shut down.
C22_SessionClosedOnLeaving ==
    CandlesLeft => ~mt5_open


-----------------------------------------------------------------------------
(* C23 *)

\* update_portfolio.py has run at least once
Updated == prog = "ledger" /\ u_runs >= 1

\* shares and cost of the trades of one side in a token, from the trades
RECURSIVE SharesIn(_, _, _)
SharesIn(trades, tok, side) ==
    IF trades = << >> THEN 0
    ELSE (IF Head(trades).asset_id = tok /\ Head(trades).side = side
          THEN Head(trades).size ELSE 0) + SharesIn(Tail(trades), tok, side)

RECURSIVE CostIn(_, _, _)
CostIn(trades, tok, side) ==
    IF trades = << >> THEN 0
    ELSE (IF Head(trades).asset_id = tok /\ Head(trades).side = side
          THEN Head(trades).price * Head(trades).size ELSE 0)
         + CostIn(Tail(trades), tok, side)

\* C23: a run leaves every position it found in place and unchanged; each
\* position it adds is for a token with net shares >= 0.5 and average buy
\* price >= 0.90 that had no position under either of its keys; the file is
\* written exactly when a position was added; and a run after the first, on
\* the same trades, adds nothing and does not write the file.
C23_UpdateIsIdempotent ==
    Updated =>
        /\ Len(u_before) <= Len(u_file)
        /\ SubSeq(u_file, 1, Len(u_before)) = u_before
        /\ u_added = Len(u_file) - Len(u_before)
        /\ u_wrote <=> u_added > 0
        /\ \A i \in (Len(u_before) + 1)..Len(u_file) :
             LET tok == u_file[i].val.token_id
             IN  /\ tok \in Tokens
                 /\ SharesIn(u_trades, tok, "BUY") - SharesIn(u_trades, tok, "SELL")
                        >= MinNetShares
                 /\ CostIn(u_trades, tok, "BUY")
                        >= SniperPrice * SharesIn(u_trades, tok, "BUY")
                 /\ \A j \in 1..Len(u_before) :
                        u_before[j].key \notin { KeyStr(tok, "YES"), KeyStr(tok, "NO") }
        /\ u_runs >= 2 => (u_file = u_before /\ ~u_wrote /\ u_added = 0)

\* a second run has left alone a file that holds another strategy's
\* position and a sniper position the first run added
C23_Witness ==
    /\ prog = "ledger"
    /\ u_runs = 2
    /\ ~u_wrote
    /\ \E i, j \in 1..Len(u_file) :
         /\ u_file[i].val = OtherPosition
         /\ u_file[j].val.market_slug = "sniper-position"

====
